---- MODULE Spec2Model ----
(***************************************************************************)
(* Order lifecycle, delivery and payment reconciliation of the kaanagas    *)
(* backend (orders/, riders/), as a state machine over the relational      *)
(* tables.  One action per HTTP handler; a handler runs to completion      *)
(* (Spec, SpecCreate) or, where requests race, in the steps between its    *)
(* database accesses (SpecNumber).                                         *)
(*                                                                         *)
(* Money is counted in cents (DecimalField, 2 decimal places), distances   *)
(* in 1/100 km, so Decimal arithmetic is integer arithmetic.  A timestamp  *)
(* is the pair <<calendar day, minutes after the request>>.  Columns no     *)
(* handler reads (notes, accepted_at, picked_up_at, product snapshots,     *)
(* coordinates) are left out of the rows.                                  *)
(***************************************************************************)
EXTENDS Integers, Sequences, FiniteSets, TLC

\* ------------------------------------------------------------ bounds
MaxOrders == 2
MaxTracking == 3
MaxPayments == 2
MaxEarnings == 2
MaxDay == 2
MaxWorkers == 2

\* ------------------------------------------------- program constants
\* f"{last_sequence + 1:04d}" and order_number[-4:]
SeqWidth == 4
\* base_fee = 100 (in cents)
BaseFee == 10000
\* delivery.actual_distance * 10
PerKmRate == 10
\* request.data.get('estimated_time', 30)
DefaultEstimatedTime == 30

\* a nullable numeric column holding NULL
NULL == -1
\* a nullable foreign key / timestamp holding NULL
NoUser == "null"
NoTime == <<>>
\* Text built by an f-string is the sequence of its pieces; '' is <<>>.

\* ------------------------------------------------------- principals
Customers == {"c1", "c2"}
\* a VendorProfile is named by its user
Vendors == {"v1", "v2"}
\* a RiderProfile is named by its user
Riders == {"r1", "r2"}
Admins == {"a1"}
Users == Customers \cup Vendors \cup Riders \cup Admins

is_customer(u) == u \in Customers
is_vendor(u) == u \in Vendors
is_rider(u) == u \in Riders
is_admin_user(u) == u \in Admins

Products == {"gas13kg", "gas6kg"}

ORDER_STATUS == {"pending", "confirmed", "preparing", "ready_for_pickup",
                 "out_for_delivery", "delivered", "cancelled", "refunded"}
PAYMENT_STATUS == {"pending", "paid", "failed", "refunded"}
DELIVERY_STATUS == {"assigned", "accepted", "picking_up", "in_transit",
                    "delivered", "failed", "cancelled"}

VARIABLES
    orders,        \* orders_order: sequence of rows, the id is the position
    order_items,   \* orders_order_item: sequence of rows
    tracking,      \* orders_tracking: sequence of rows, oldest first
    payments,      \* orders_payment: sequence of rows, the id is the position
    deliveries,    \* riders_delivery: sequence of rows, the id is the position
    earnings,      \* riders_earnings: sequence of rows
    delivery_fee,  \* VendorProfile.delivery_fee, per vendor
    inventory,     \* VendorInventory rows: per vendor, a function of the products it carries
    catalog,       \* GasProduct prices, per product
    today,         \* the calendar day of datetime.now()
    inflight,      \* requests between two of their database accesses
    response       \* the last completed request: its handler and HTTP status

dbOrders == <<orders, order_items, tracking>>
dbPayments == <<payments>>
dbRiders == <<deliveries, earnings>>
dbCatalog == <<delivery_fee, inventory, catalog>>
vars == <<orders, order_items, tracking, payments, deliveries, earnings,
          delivery_fee, inventory, catalog, today, inflight, response>>

\* the Response a handler returns (or the error response of an exception)
Resp(op, code) == [op |-> op, code |-> code]

\* A deleted row: the tables are indexed by primary key, and the key of a
\* deleted row is not given to a later row.
Gone == [gone |-> TRUE]

\* the primary keys of the rows of a table
Live(table) == {i \in DOMAIN table : table[i] # Gone}

\* --------------------------------------------------- order numbers
\* The zero-padded sequence part of an order number is a string of digits;
\* the 'KAA' + date prefix is kept as the day.
RECURSIVE Digits(_)
Digits(n) == IF n < 10 THEN <<n>> ELSE Append(Digits(n \div 10), n % 10)

RECURSIVE ZeroPad(_, _)
ZeroPad(s, w) == IF Len(s) >= w THEN s ELSE ZeroPad(<<0>> \o s, w)

\* f"{n:04d}"
FormatSequence(n) == ZeroPad(Digits(n), SeqWidth)

RECURSIVE ParseInt(_)
ParseInt(s) ==
    IF s = <<>> THEN 0
    ELSE 10 * ParseInt(SubSeq(s, 1, Len(s) - 1)) + s[Len(s)]

\* int(order_number[-4:])
LastSequence(number) ==
    ParseInt(SubSeq(number.seq, Len(number.seq) - SeqWidth + 1, Len(number.seq)))

\* string order of two digit strings, as ORDER BY order_number compares them
RECURSIVE StrLess(_, _)
StrLess(a, b) ==
    IF a = <<>> THEN b # <<>>
    ELSE IF b = <<>> THEN FALSE
    ELSE IF Head(a) # Head(b) THEN Head(a) < Head(b)
    ELSE StrLess(Tail(a), Tail(b))

\* Order.objects.filter(order_number__startswith='KAA' + date)
NumbersOfDay(d) ==
    {orders[i].order_number : i \in {j \in Live(orders) : orders[j].order_number.date = d}}

\* Order.generate_order_number
generate_order_number ==
    LET same == NumbersOfDay(today)
    IN  IF same # {}
        THEN LET last_order == CHOOSE n \in same : \A m \in same : ~StrLess(n.seq, m.seq)
             IN  [date |-> today, seq |-> FormatSequence(LastSequence(last_order) + 1)]
        ELSE [date |-> today, seq |-> FormatSequence(1)]

\* ------------------------------------------------- order creation
unit_price_CatalogOnly(vendor, line) ==
    IF line.is_refill THEN catalog[line.gas_product].refill_price
    ELSE catalog[line.gas_product].base_price

\* the price lookup of one submitted line: vendor inventory first, else catalog
unit_price(vendor, line) ==
    IF line.gas_product \in DOMAIN inventory[vendor]
    THEN IF line.is_refill THEN inventory[vendor][line.gas_product].refill_price
         ELSE inventory[vendor][line.gas_product].selling_price
    ELSE IF line.is_refill THEN catalog[line.gas_product].refill_price
         ELSE catalog[line.gas_product].base_price

validate_items_NoQuantityCheck(lines) ==
    lines # <<>>

\* OrderCreateSerializer.validate_items
validate_items(lines) ==
    /\ lines # <<>>
    /\ \A i \in DOMAIN lines : lines[i].quantity > 0

\* the OrderItem row of one line (OrderItem.save recomputes total_price)
item_row(oid, vendor, line) ==
    [order |-> oid, gas_product |-> line.gas_product, quantity |-> line.quantity,
     unit_price |-> unit_price(vendor, line),
     total_price |-> line.quantity * unit_price(vendor, line),
     is_refill |-> line.is_refill]

\* index of the first line whose price is NULL (quantity * None raises), 0 if none
first_unpriced(vendor, lines) ==
    LET bad == {i \in DOMAIN lines : unit_price(vendor, lines[i]) = NULL}
    IN  IF bad = {} THEN 0 ELSE CHOOSE i \in bad : \A j \in bad : i <= j

RECURSIVE sum_total_price(_)
sum_total_price(rows) ==
    IF rows = <<>> THEN 0 ELSE Head(rows).total_price + sum_total_price(Tail(rows))

\* "Calculate order totals": the order row as saved after its lines are priced
order_totals_NoFee(order, subtotal, fee) ==
    [order EXCEPT !.subtotal = subtotal, !.delivery_fee = fee,
                  !.total_amount = subtotal]

order_totals(order, subtotal, fee) ==
    [order EXCEPT !.subtotal = subtotal, !.delivery_fee = fee,
                  !.total_amount = subtotal + fee]

\* the row Order.objects.create(**validated_data) inserts: model defaults
new_order(number, customer, vendor) ==
    [order_number |-> number, customer |-> customer, vendor |-> vendor,
     rider |-> NoUser, status |-> "pending", payment_status |-> "pending",
     subtotal |-> 0, delivery_fee |-> 0, discount_amount |-> 0, tax_amount |-> 0,
     total_amount |-> 0, cancellation_reason |-> <<>>,
     estimated_delivery_time |-> NoTime, actual_delivery_time |-> NoTime]

tracking_row(oid, status, notes, user) ==
    [order |-> oid, status |-> status, notes |-> notes, updated_by |-> user]

\* OrderCreateSerializer.create, given the order number Order.save generated.
\* extra: the tracking rows the caller writes after serializer.save() returns.
serializer_create(op, user, data, number, extra) ==
    LET oid == Len(orders) + 1
        bad == first_unpriced(data.vendor, data.items)
        rows == [i \in DOMAIN data.items |-> item_row(oid, data.vendor, data.items[i])]
        subtotal == sum_total_price(rows)
        created == tracking_row(oid, "pending", <<"Order created successfully">>, user)
    IN  IF \E i \in Live(orders) : orders[i].order_number = number
        THEN \* unique=True on order_number: IntegrityError, nothing inserted
             /\ response' = Resp(op, 500)
             /\ UNCHANGED dbOrders
        ELSE IF bad # 0
        THEN \* TypeError while pricing line bad: the rows written so far stay
             /\ response' = Resp(op, 500)
             /\ orders' = Append(orders, new_order(number, user, data.vendor))
             /\ order_items' = order_items \o SubSeq(rows, 1, bad - 1)
             /\ UNCHANGED tracking
        ELSE /\ response' = Resp(op, 201)
             /\ orders' = Append(orders,
                    order_totals(new_order(number, user, data.vendor),
                                 subtotal, delivery_fee[data.vendor]))
             /\ order_items' = order_items \o rows
             /\ tracking' = tracking \o <<created>> \o
                    [i \in 1..extra |-> created]

\* CreateOrderView.post
CreateOrderView_post(user, data) ==
    /\ Len(orders) < MaxOrders
    /\ IF ~is_customer(user)
       THEN response' = Resp("CreateOrderView_post", 403) /\ UNCHANGED dbOrders
       ELSE IF ~validate_items(data.items)
       THEN response' = Resp("CreateOrderView_post", 400) /\ UNCHANGED dbOrders
       ELSE serializer_create("CreateOrderView_post", user, data, generate_order_number, 0)
    /\ UNCHANGED <<dbPayments, dbRiders, dbCatalog, today, inflight>>

\* OrderViewSet.create (CreateModelMixin) with OrderViewSet.perform_create
OrderViewSet_create(user, data) ==
    /\ Len(orders) < MaxOrders
    /\ IF ~validate_items(data.items)
       THEN response' = Resp("OrderViewSet_create", 400) /\ UNCHANGED dbOrders
       ELSE IF ~is_customer(user)
       THEN \* rest_framework.permissions has no PermissionDenied: AttributeError
            response' = Resp("OrderViewSet_create", 500) /\ UNCHANGED dbOrders
       ELSE serializer_create("OrderViewSet_create", user, data, generate_order_number, 1)
    /\ UNCHANGED <<dbPayments, dbRiders, dbCatalog, today, inflight>>

\* --------------------------------------------- order actions
\* timezone.now(), and timezone.now() + timedelta(minutes=m)
now == <<today, 0>>
now_plus(minutes) == <<today, minutes>>

\* OrderViewSet.get_queryset / get_object: the orders the principal can address
in_order_queryset(user, oid) ==
    /\ oid \in Live(orders)
    /\ \/ is_admin_user(user)
       \/ is_customer(user) /\ orders[oid].customer = user
       \/ is_vendor(user) /\ orders[oid].vendor = user
       \/ is_rider(user) /\ orders[oid].rider = user

\* "not request.user.is_vendor or order.vendor.user != request.user"
is_order_vendor(user, oid) == is_vendor(user) /\ orders[oid].vendor = user

can_confirm_AnyStatus(order) == TRUE

\* "if order.status != 'pending'" of confirm, negated
can_confirm(order) == order.status = "pending"

can_cancel_UnlessCancelled(order) == order.status # "cancelled"

\* "if order.status in ['delivered', 'cancelled']" of the cancel views, negated
can_cancel(order) == order.status \notin {"delivered", "cancelled"}

\* the permission check of both cancel views
may_cancel(user, oid) ==
    \/ orders[oid].customer = user
    \/ is_vendor(user) /\ orders[oid].vendor = user
    \/ is_admin_user(user)

\* the answer of a handler that changes no order table
Reject(op, code) == response' = Resp(op, code) /\ UNCHANGED dbOrders

\* OrderViewSet.confirm
confirm(user, oid, estimated_time) ==
    /\ IF ~in_order_queryset(user, oid) THEN Reject("confirm", 404)
       ELSE IF ~is_order_vendor(user, oid) THEN Reject("confirm", 403)
       ELSE IF ~can_confirm(orders[oid]) THEN Reject("confirm", 400)
       ELSE /\ Len(tracking) < MaxTracking
            /\ orders' = [orders EXCEPT
                    ![oid].status = "confirmed",
                    ![oid].estimated_delivery_time = now_plus(estimated_time)]
            /\ tracking' = Append(tracking, tracking_row(oid, "confirmed",
                    <<"Order confirmed. Estimated delivery time: ",
                      ToString(estimated_time), " minutes">>, user))
            /\ response' = Resp("confirm", 200)
            /\ UNCHANGED order_items
    /\ UNCHANGED <<dbPayments, dbRiders, dbCatalog, today, inflight>>

\* OrderViewSet.prepare
prepare(user, oid) ==
    /\ IF ~in_order_queryset(user, oid) THEN Reject("prepare", 404)
       ELSE IF ~is_order_vendor(user, oid) THEN Reject("prepare", 403)
       ELSE /\ Len(tracking) < MaxTracking
            /\ orders' = [orders EXCEPT ![oid].status = "preparing"]
            /\ tracking' = Append(tracking, tracking_row(oid, "preparing",
                    <<"Order is being prepared">>, user))
            /\ response' = Resp("prepare", 200)
            /\ UNCHANGED order_items
    /\ UNCHANGED <<dbPayments, dbRiders, dbCatalog, today, inflight>>

\* OrderViewSet.ready_for_pickup
ready_for_pickup(user, oid) ==
    /\ IF ~in_order_queryset(user, oid) THEN Reject("ready_for_pickup", 404)
       ELSE IF ~is_order_vendor(user, oid) THEN Reject("ready_for_pickup", 403)
       ELSE /\ Len(tracking) < MaxTracking
            /\ orders' = [orders EXCEPT ![oid].status = "ready_for_pickup"]
            /\ tracking' = Append(tracking, tracking_row(oid, "ready_for_pickup",
                    <<"Order is ready for pickup">>, user))
            /\ response' = Resp("ready_for_pickup", 200)
            /\ UNCHANGED order_items
    /\ UNCHANGED <<dbPayments, dbRiders, dbCatalog, today, inflight>>

\* the Delivery row Delivery.objects.create(order, rider, status='assigned') inserts
new_delivery(oid, rider) ==
    [order |-> oid, rider |-> rider, status |-> "assigned", delivered_at |-> NoTime,
     actual_distance |-> NULL, base_fee |-> 0, distance_fee |-> 0,
     total_earnings |-> 0, failure_reason |-> <<>>]

\* OneToOneField(order): a second Delivery of the same order is an IntegrityError
has_delivery(oid) == \E d \in Live(deliveries) : deliveries[d].order = oid

\* OrderViewSet.assign_rider; rider_id = NoUser: no rider_id in the body
assign_rider(user, oid, rider_id) ==
    /\ IF ~in_order_queryset(user, oid)
       THEN Reject("assign_rider", 404) /\ UNCHANGED deliveries
       ELSE IF ~is_order_vendor(user, oid)
       THEN Reject("assign_rider", 403) /\ UNCHANGED deliveries
       ELSE IF rider_id = NoUser
       THEN Reject("assign_rider", 400) /\ UNCHANGED deliveries
       ELSE IF ~is_rider(rider_id)
       THEN Reject("assign_rider", 404) /\ UNCHANGED deliveries
       ELSE IF has_delivery(oid)
       THEN \* order.save() is done when Delivery.objects.create raises
            /\ orders' = [orders EXCEPT ![oid].rider = rider_id,
                                        ![oid].status = "out_for_delivery"]
            /\ response' = Resp("assign_rider", 500)
            /\ UNCHANGED <<order_items, tracking, deliveries>>
       ELSE /\ Len(tracking) < MaxTracking
            /\ orders' = [orders EXCEPT ![oid].rider = rider_id,
                                        ![oid].status = "out_for_delivery"]
            /\ deliveries' = Append(deliveries, new_delivery(oid, rider_id))
            /\ tracking' = Append(tracking, tracking_row(oid, "out_for_delivery",
                    <<"Order assigned to rider ", rider_id>>, user))
            /\ response' = Resp("assign_rider", 200)
            /\ UNCHANGED order_items
    /\ UNCHANGED <<dbPayments, earnings, dbCatalog, today, inflight>>

\* the writes of a cancellation that passed the checks of either cancel view
cancel_order(op, user, oid, reason) ==
    /\ Len(tracking) < MaxTracking
    /\ orders' = [orders EXCEPT ![oid].status = "cancelled",
                                ![oid].cancellation_reason = reason]
    /\ tracking' = Append(tracking, tracking_row(oid, "cancelled",
            <<"Order cancelled. Reason: ">> \o reason, user))
    /\ response' = Resp(op, 200)
    /\ UNCHANGED order_items

\* OrderViewSet.cancel
cancel(user, oid, reason) ==
    /\ IF ~in_order_queryset(user, oid) THEN Reject("cancel", 404)
       ELSE IF ~may_cancel(user, oid) THEN Reject("cancel", 403)
       ELSE IF ~can_cancel(orders[oid]) THEN Reject("cancel", 400)
       ELSE cancel_order("cancel", user, oid, reason)
    /\ UNCHANGED <<dbPayments, dbRiders, dbCatalog, today, inflight>>

\* CancelOrderView.post
CancelOrderView_post(user, order_id, reason) ==
    /\ IF order_id \notin Live(orders) THEN Reject("CancelOrderView_post", 404)
       ELSE IF ~may_cancel(user, order_id) THEN Reject("CancelOrderView_post", 403)
       ELSE IF ~can_cancel(orders[order_id]) THEN Reject("CancelOrderView_post", 400)
       ELSE cancel_order("CancelOrderView_post", user, order_id, reason)
    /\ UNCHANGED <<dbPayments, dbRiders, dbCatalog, today, inflight>>

\* OrderViewSet.partial_update with OrderUpdateSerializer.update, body {status}
OrderViewSet_partial_update(user, oid, status) ==
    /\ IF ~in_order_queryset(user, oid) THEN Reject("OrderViewSet_partial_update", 404)
       ELSE IF status \notin ORDER_STATUS THEN Reject("OrderViewSet_partial_update", 400)
       ELSE IF orders[oid].status = status
       THEN response' = Resp("OrderViewSet_partial_update", 200) /\ UNCHANGED dbOrders
       ELSE /\ Len(tracking) < MaxTracking
            /\ orders' = [orders EXCEPT ![oid].status = status]
            /\ tracking' = Append(tracking, tracking_row(oid, status,
                    <<"Status updated from ", orders[oid].status, " to ", status>>, user))
            /\ response' = Resp("OrderViewSet_partial_update", 200)
            /\ UNCHANGED order_items
    /\ UNCHANGED <<dbPayments, dbRiders, dbCatalog, today, inflight>>

\* OrderViewSet.destroy (ModelViewSet): DELETE of the order row; the rows that
\* reference it by a CASCADE foreign key go with it
OrderViewSet_destroy(user, oid) ==
    /\ IF ~in_order_queryset(user, oid)
       THEN /\ response' = Resp("OrderViewSet_destroy", 404)
            /\ UNCHANGED <<dbOrders, dbPayments, dbRiders>>
       ELSE LET gone_deliveries == {d \in Live(deliveries) : deliveries[d].order = oid}
            IN  /\ orders' = [orders EXCEPT ![oid] = Gone]
                /\ order_items' = SelectSeq(order_items, LAMBDA row : row.order # oid)
                /\ tracking' = SelectSeq(tracking, LAMBDA row : row.order # oid)
                /\ payments' = [p \in DOMAIN payments |->
                        IF p \in Live(payments) /\ payments[p].order = oid
                        THEN Gone ELSE payments[p]]
                /\ deliveries' = [d \in DOMAIN deliveries |->
                        IF d \in gone_deliveries THEN Gone ELSE deliveries[d]]
                /\ earnings' = SelectSeq(earnings,
                        LAMBDA row : row.delivery \notin gone_deliveries)
                /\ response' = Resp("OrderViewSet_destroy", 204)
    /\ UNCHANGED <<dbCatalog, today, inflight>>

\* ------------------------------------------- delivery actions
\* DeliveryViewSet.get_queryset / get_object
in_delivery_queryset(user, did) ==
    /\ did \in Live(deliveries)
    /\ \/ is_admin_user(user)
       \/ is_rider(user) /\ deliveries[did].rider = user
       \/ is_vendor(user) /\ orders[deliveries[did].order].vendor = user
       \/ is_customer(user) /\ orders[deliveries[did].order].customer = user

\* "not request.user.is_rider or delivery.rider.user != request.user", negated
is_delivery_rider(user, did) == is_rider(user) /\ deliveries[did].rider = user

\* the answer of a delivery handler that changes nothing
RejectDelivery(op, code) == response' = Resp(op, code) /\ UNCHANGED <<dbOrders, dbRiders>>

\* DeliveryViewSet.accept
accept(user, did) ==
    /\ IF ~in_delivery_queryset(user, did) THEN RejectDelivery("accept", 404)
       ELSE IF ~is_delivery_rider(user, did) THEN RejectDelivery("accept", 403)
       ELSE IF deliveries[did].status # "assigned" THEN RejectDelivery("accept", 400)
       ELSE /\ deliveries' = [deliveries EXCEPT ![did].status = "accepted"]
            /\ orders' = [orders EXCEPT ![deliveries[did].order].status = "out_for_delivery"]
            /\ response' = Resp("accept", 200)
            /\ UNCHANGED <<order_items, tracking, earnings>>
    /\ UNCHANGED <<dbPayments, dbCatalog, today, inflight>>

\* DeliveryViewSet.pickup
pickup(user, did) ==
    /\ IF ~in_delivery_queryset(user, did) THEN RejectDelivery("pickup", 404)
       ELSE IF ~is_delivery_rider(user, did) THEN RejectDelivery("pickup", 403)
       ELSE /\ deliveries' = [deliveries EXCEPT ![did].status = "in_transit"]
            /\ response' = Resp("pickup", 200)
            /\ UNCHANGED <<dbOrders, earnings>>
    /\ UNCHANGED <<dbPayments, dbCatalog, today, inflight>>

\* "Calculate earnings" of deliver
distance_fee(delivery) ==
    IF delivery.actual_distance # NULL /\ delivery.actual_distance # 0
    THEN delivery.actual_distance * PerKmRate
    ELSE 0

earnings_row(did, rider, amount) ==
    [rider |-> rider, delivery |-> did, earning_type |-> "delivery", amount |-> amount]

\* DeliveryViewSet.deliver
deliver(user, did) ==
    /\ IF ~in_delivery_queryset(user, did) THEN RejectDelivery("deliver", 404)
       ELSE IF ~is_delivery_rider(user, did) THEN RejectDelivery("deliver", 403)
       ELSE /\ Len(earnings) < MaxEarnings
            /\ deliveries' = [deliveries EXCEPT
                    ![did].status = "delivered",
                    ![did].delivered_at = now,
                    ![did].base_fee = BaseFee,
                    ![did].distance_fee = distance_fee(deliveries[did]),
                    ![did].total_earnings = BaseFee + distance_fee(deliveries[did])]
            /\ orders' = [orders EXCEPT
                    ![deliveries[did].order].status = "delivered",
                    ![deliveries[did].order].actual_delivery_time = now]
            /\ earnings' = Append(earnings, earnings_row(did, deliveries[did].rider,
                    BaseFee + distance_fee(deliveries[did])))
            /\ response' = Resp("deliver", 200)
            /\ UNCHANGED <<order_items, tracking>>
    /\ UNCHANGED <<dbPayments, dbCatalog, today, inflight>>

\* DeliveryViewSet.report_issue
report_issue(user, did, reason) ==
    /\ IF ~in_delivery_queryset(user, did) THEN RejectDelivery("report_issue", 404)
       ELSE IF ~is_delivery_rider(user, did) THEN RejectDelivery("report_issue", 403)
       ELSE /\ deliveries' = [deliveries EXCEPT ![did].status = "failed",
                                                ![did].failure_reason = reason]
            /\ orders' = [orders EXCEPT
                    ![deliveries[did].order].status = "cancelled",
                    ![deliveries[did].order].cancellation_reason =
                        <<"Delivery failed: ">> \o reason]
            /\ response' = Resp("report_issue", 200)
            /\ UNCHANGED <<order_items, tracking, earnings>>
    /\ UNCHANGED <<dbPayments, dbCatalog, today, inflight>>

\* DeliveryViewSet.partial_update (DeliverySerializer), body {actual_distance}
DeliveryViewSet_partial_update(user, did, distance) ==
    /\ IF ~in_delivery_queryset(user, did) THEN RejectDelivery("DeliveryViewSet_partial_update", 404)
       ELSE /\ deliveries' = [deliveries EXCEPT ![did].actual_distance = distance]
            /\ response' = Resp("DeliveryViewSet_partial_update", 200)
            /\ UNCHANGED <<dbOrders, earnings>>
    /\ UNCHANGED <<dbPayments, dbCatalog, today, inflight>>

\* DeliveryViewSet.partial_update (DeliverySerializer), body {status}: status
\* is a writable choice field of the serializer
DeliveryViewSet_partial_update_status(user, did, new_status) ==
    /\ IF ~in_delivery_queryset(user, did)
       THEN RejectDelivery("DeliveryViewSet_partial_update_status", 404)
       ELSE IF new_status \notin DELIVERY_STATUS
       THEN RejectDelivery("DeliveryViewSet_partial_update_status", 400)
       ELSE /\ deliveries' = [deliveries EXCEPT ![did].status = new_status]
            /\ response' = Resp("DeliveryViewSet_partial_update_status", 200)
            /\ UNCHANGED <<dbOrders, earnings>>
    /\ UNCHANGED <<dbPayments, dbCatalog, today, inflight>>

\* UpdateDeliveryStatusView.post; new_status = "": no status in the body
UpdateDeliveryStatusView_post(user, delivery_id, new_status) ==
    /\ IF ~is_rider(user) THEN RejectDelivery("UpdateDeliveryStatusView_post", 403)
       ELSE IF new_status = "" THEN RejectDelivery("UpdateDeliveryStatusView_post", 400)
       ELSE IF ~(delivery_id \in Live(deliveries) /\ deliveries[delivery_id].rider = user)
       THEN RejectDelivery("UpdateDeliveryStatusView_post", 404)
       ELSE IF new_status = "delivered"
       THEN /\ deliveries' = [deliveries EXCEPT ![delivery_id].status = new_status,
                                                ![delivery_id].delivered_at = now]
            /\ orders' = [orders EXCEPT
                    ![deliveries[delivery_id].order].status = "delivered",
                    ![deliveries[delivery_id].order].actual_delivery_time = now]
            /\ response' = Resp("UpdateDeliveryStatusView_post", 200)
            /\ UNCHANGED <<order_items, tracking, earnings>>
       ELSE /\ deliveries' = [deliveries EXCEPT ![delivery_id].status = new_status]
            /\ response' = Resp("UpdateDeliveryStatusView_post", 200)
            /\ UNCHANGED <<dbOrders, earnings>>
    /\ UNCHANGED <<dbPayments, dbCatalog, today, inflight>>

\* AcceptDeliveryView.post
AcceptDeliveryView_post(user, order_id) ==
    /\ IF ~is_rider(user) THEN RejectDelivery("AcceptDeliveryView_post", 403)
       ELSE IF ~(order_id \in Live(orders) /\ orders[order_id].rider = NoUser)
       THEN RejectDelivery("AcceptDeliveryView_post", 404)
       ELSE IF has_delivery(order_id)
       THEN \* order.save() is done when Delivery.objects.create raises
            /\ orders' = [orders EXCEPT ![order_id].rider = user]
            /\ response' = Resp("AcceptDeliveryView_post", 500)
            /\ UNCHANGED <<order_items, tracking, dbRiders>>
       ELSE /\ orders' = [orders EXCEPT ![order_id].rider = user]
            /\ deliveries' = Append(deliveries, new_delivery(order_id, user))
            /\ response' = Resp("AcceptDeliveryView_post", 200)
            /\ UNCHANGED <<order_items, tracking, earnings>>
    /\ UNCHANGED <<dbPayments, dbCatalog, today, inflight>>

\* ---------------------------------------------------- payments
\* 'ws_CO_' + payment_id: the checkout request id of the payment with that id
CheckoutRequestID(pid) == <<"ws_CO_", ToString(pid)>>

\* the reply of the simulated STK push: its ResponseCode and description
mpesa_response ==
    [ResponseCode |-> "0",
     ResponseDescription |-> <<"Success. Request accepted for processing">>]

already_paid_Never(order) == FALSE

\* "if order.payment_status == 'paid'" of InitiatePaymentView.post
already_paid(order) == order.payment_status = "paid"

\* the row Payment.objects.create(order, amount, payment_method, status) inserts
payment_row(order_id) ==
    [order |-> order_id, amount |-> orders[order_id].total_amount,
     payment_method |-> "mpesa", status |-> "pending",
     external_reference |-> <<>>, completed_at |-> NoTime,
     failure_reason |-> <<>>, gateway_response |-> <<>>]

\* InitiatePaymentView.post; phone_number = "": none in the body
InitiatePaymentView_post(user, order_id, phone_number) ==
    /\ IF ~is_customer(user)
       THEN response' = Resp("InitiatePaymentView_post", 403) /\ UNCHANGED payments
       ELSE IF phone_number = ""
       THEN response' = Resp("InitiatePaymentView_post", 400) /\ UNCHANGED payments
       ELSE IF ~(order_id \in Live(orders) /\ orders[order_id].customer = user)
       THEN response' = Resp("InitiatePaymentView_post", 404) /\ UNCHANGED payments
       ELSE IF already_paid(orders[order_id])
       THEN response' = Resp("InitiatePaymentView_post", 400) /\ UNCHANGED payments
       ELSE /\ Len(payments) < MaxPayments
            /\ IF mpesa_response.ResponseCode = "0"
               THEN /\ payments' = Append(payments,
                        [payment_row(order_id) EXCEPT
                            !.external_reference = CheckoutRequestID(Len(payments) + 1),
                            !.status = "processing",
                            !.gateway_response =
                                <<"ResponseCode", mpesa_response.ResponseCode>>])
                    /\ response' = Resp("InitiatePaymentView_post", 200)
               ELSE /\ payments' = Append(payments,
                        [payment_row(order_id) EXCEPT
                            !.status = "failed",
                            !.failure_reason = mpesa_response.ResponseDescription,
                            !.gateway_response =
                                <<"ResponseCode", mpesa_response.ResponseCode>>])
                    /\ response' = Resp("InitiatePaymentView_post", 400)
    /\ UNCHANGED <<dbOrders, dbRiders, dbCatalog, today, inflight>>

payments_by_reference_AnyRow(ref) == Live(payments)

\* Payment.objects.get(external_reference=...): the ids of the matching rows
payments_by_reference(ref) ==
    {pid \in Live(payments) : payments[pid].external_reference = ref}

is_success_Always(result_code) == TRUE

\* "if result_code == 0" of MpesaCallbackView.post
is_success(result_code) == result_code = 0

\* MpesaCallbackView.post; checkout_request_id = <<>>: none in the body
MpesaCallbackView_post(checkout_request_id, result_code, result_desc) ==
    /\ IF checkout_request_id = <<>>
       THEN response' = Resp("MpesaCallbackView_post", 400) /\ UNCHANGED <<dbOrders, payments>>
       ELSE IF payments_by_reference(checkout_request_id) = {}
       THEN response' = Resp("MpesaCallbackView_post", 404) /\ UNCHANGED <<dbOrders, payments>>
       ELSE LET pid == CHOOSE q \in payments_by_reference(checkout_request_id) : TRUE
                oid == payments[pid].order
                callback_data == <<"ResultCode", ToString(result_code)>>
            IN  IF is_success(result_code)
                THEN /\ Len(tracking) < MaxTracking
                     /\ payments' = [payments EXCEPT
                            ![pid].status = "completed",
                            ![pid].completed_at = now,
                            ![pid].gateway_response = callback_data]
                     /\ orders' = [orders EXCEPT ![oid].payment_status = "paid"]
                     /\ tracking' = Append(tracking, tracking_row(oid, orders[oid].status,
                            <<"Payment completed successfully via M-Pesa">>,
                            orders[oid].customer))
                     /\ response' = Resp("MpesaCallbackView_post", 200)
                     /\ UNCHANGED order_items
                ELSE /\ payments' = [payments EXCEPT
                            ![pid].status = "failed",
                            ![pid].failure_reason = result_desc,
                            ![pid].gateway_response = callback_data]
                     /\ orders' = [orders EXCEPT ![oid].payment_status = "failed"]
                     /\ response' = Resp("MpesaCallbackView_post", 200)
                     /\ UNCHANGED <<order_items, tracking>>
    /\ UNCHANGED <<dbRiders, dbCatalog, today, inflight>>

\* Server workers, each handling one request at a time
Workers == 1..MaxWorkers
Idle == [pc |-> "idle"]

\* ------------------------------- payment callback, racing requests
\* MpesaCallbackView.post up to its first write, for a callback that matches
\* a Payment: the Payment row and, through payment.order, the Order row are
\* read into the request's model instances.  No transaction is open and no
\* row is locked, so other requests' statements may run before the writes.
MpesaCallbackView_post_read(w, checkout_request_id, result_code, result_desc) ==
    /\ inflight[w] = Idle
    /\ payments_by_reference(checkout_request_id) # {}
    /\ LET pid == CHOOSE q \in payments_by_reference(checkout_request_id) : TRUE
       IN  inflight' = [inflight EXCEPT ![w] =
                [pc |-> "callback", pid |-> pid, payment |-> payments[pid],
                 order |-> orders[payments[pid].order],
                 result_code |-> result_code, result_desc |-> result_desc]]
    /\ UNCHANGED <<dbOrders, dbPayments, dbRiders, dbCatalog, today, response>>

\* the writes of MpesaCallbackView.post: payment.order.save() and
\* payment.save() write every column of the instances read before
MpesaCallbackView_post_write(w) ==
    /\ inflight[w].pc = "callback"
    /\ LET pid == inflight[w].pid
           payment == inflight[w].payment
           order == inflight[w].order
           oid == payment.order
           callback_data == <<"ResultCode", ToString(inflight[w].result_code)>>
       IN  IF is_success(inflight[w].result_code)
           THEN /\ Len(tracking) < MaxTracking
                /\ orders' = [orders EXCEPT
                        ![oid] = [order EXCEPT !.payment_status = "paid"]]
                /\ tracking' = Append(tracking, tracking_row(oid, order.status,
                        <<"Payment completed successfully via M-Pesa">>, order.customer))
                /\ payments' = [payments EXCEPT
                        ![pid] = [payment EXCEPT !.status = "completed",
                                                 !.completed_at = now,
                                                 !.gateway_response = callback_data]]
                /\ UNCHANGED order_items
           ELSE /\ orders' = [orders EXCEPT
                        ![oid] = [order EXCEPT !.payment_status = "failed"]]
                /\ payments' = [payments EXCEPT
                        ![pid] = [payment EXCEPT
                                    !.status = "failed",
                                    !.failure_reason = inflight[w].result_desc,
                                    !.gateway_response = callback_data]]
                /\ UNCHANGED <<order_items, tracking>>
    /\ response' = Resp("MpesaCallbackView_post", 200)
    /\ inflight' = [inflight EXCEPT ![w] = Idle]
    /\ UNCHANGED <<dbRiders, dbCatalog, today>>

\* ---------------------------------- order creation, racing requests
\* Server workers, each handling one request at a time.  Between
\* generate_order_number's SELECT and the INSERT of Order.save another
\* worker's statements may run (no transaction, no lock is taken).

\* Order.save up to the INSERT: the order number is read off the table
Order_save_generate(w, user, data, extra) ==
    /\ inflight[w] = Idle
    /\ Len(orders) < MaxOrders
    /\ is_customer(user)
    /\ validate_items(data.items)
    /\ inflight' = [inflight EXCEPT ![w] =
            [pc |-> "insert", user |-> user, data |-> data, extra |-> extra,
             order_number |-> generate_order_number]]
    /\ UNCHANGED <<dbOrders, dbPayments, dbRiders, dbCatalog, today, response>>

\* the INSERT of Order.save and the rest of OrderCreateSerializer.create
Order_save_insert(w) ==
    /\ inflight[w].pc = "insert"
    /\ serializer_create(IF inflight[w].extra = 0 THEN "CreateOrderView_post"
                         ELSE "OrderViewSet_create",
                         inflight[w].user, inflight[w].data,
                         inflight[w].order_number, inflight[w].extra)
    /\ inflight' = [inflight EXCEPT ![w] = Idle]
    /\ UNCHANGED <<dbPayments, dbRiders, dbCatalog, today>>

\* midnight: datetime.now().strftime('%Y%m%d') changes
NextDay ==
    /\ today < MaxDay
    /\ today' = today + 1
    /\ UNCHANGED <<dbOrders, dbPayments, dbRiders, dbCatalog, inflight, response>>

\* ------------------------------------------- prices and fees
\* VendorInventoryViewSet.get_queryset: every row for an admin, the own rows
\* for a vendor, the available rows in stock of active vendors for the others
in_inventory_queryset(user, vendor, product) ==
    /\ product \in DOMAIN inventory[vendor]
    /\ \/ is_admin_user(user)
       \/ is_vendor(user) /\ vendor = user
       \/ ~is_admin_user(user) /\ ~is_vendor(user)
            /\ inventory[vendor][product].current_stock > 0

\* the answer of a price handler that changes nothing
RejectPrice(op, code) == response' = Resp(op, code) /\ UNCHANGED dbCatalog

\* VendorInventoryViewSet.partial_update, body {selling_price, refill_price}
VendorInventoryViewSet_partial_update(user, vendor, product, prices) ==
    /\ IF ~in_inventory_queryset(user, vendor, product)
       THEN RejectPrice("VendorInventoryViewSet_partial_update", 404)
       ELSE /\ inventory' = [inventory EXCEPT
                    ![vendor][product].selling_price = prices.selling_price,
                    ![vendor][product].refill_price = prices.refill_price]
            /\ response' = Resp("VendorInventoryViewSet_partial_update", 200)
            /\ UNCHANGED <<delivery_fee, catalog>>
    /\ UNCHANGED <<dbOrders, dbPayments, dbRiders, today, inflight>>

\* GasProductViewSet.partial_update, body {base_price, refill_price}: open to
\* every authenticated principal
GasProductViewSet_partial_update(user, product, prices) ==
    /\ catalog' = [catalog EXCEPT ![product].base_price = prices.base_price,
                                  ![product].refill_price = prices.refill_price]
    /\ response' = Resp("GasProductViewSet_partial_update", 200)
    /\ UNCHANGED <<delivery_fee, inventory>>
    /\ UNCHANGED <<dbOrders, dbPayments, dbRiders, today, inflight>>

\* VendorProfileViewSet.get_queryset: every profile for an admin, the own
\* profile for a vendor, the active profiles for the others
in_profile_queryset(user, vendor) ==
    is_vendor(user) => vendor = user

VendorProfileViewSet_partial_update_Reprice(user, vendor, fee) ==
    /\ IF ~in_profile_queryset(user, vendor)
       THEN RejectPrice("VendorProfileViewSet_partial_update", 404) /\ UNCHANGED orders
       ELSE /\ delivery_fee' = [delivery_fee EXCEPT ![vendor] = fee]
            /\ orders' = [o \in DOMAIN orders |->
                    IF orders[o] # Gone /\ orders[o].vendor = vendor
                    THEN [orders[o] EXCEPT !.delivery_fee = fee,
                                          !.total_amount = orders[o].subtotal + fee]
                    ELSE orders[o]]
            /\ response' = Resp("VendorProfileViewSet_partial_update", 200)
            /\ UNCHANGED <<inventory, catalog>>
    /\ UNCHANGED <<order_items, tracking, dbPayments, dbRiders, today, inflight>>

\* VendorProfileViewSet.partial_update, body {delivery_fee}
VendorProfileViewSet_partial_update(user, vendor, fee) ==
    /\ IF ~in_profile_queryset(user, vendor)
       THEN RejectPrice("VendorProfileViewSet_partial_update", 404)
       ELSE /\ delivery_fee' = [delivery_fee EXCEPT ![vendor] = fee]
            /\ response' = Resp("VendorProfileViewSet_partial_update", 200)
            /\ UNCHANGED <<inventory, catalog>>
    /\ UNCHANGED <<dbOrders, dbPayments, dbRiders, today, inflight>>

\* ------------------------------------------------ order estimate
estimate_unit_price_SellingOnly(vendor, line) ==
    IF line.gas_product \in DOMAIN inventory[vendor]
    THEN inventory[vendor][line.gas_product].selling_price
    ELSE catalog[line.gas_product].base_price

\* the price lookup of OrderEstimateView.post for one line
estimate_unit_price(vendor, line) ==
    IF line.gas_product \in DOMAIN inventory[vendor]
    THEN IF line.is_refill THEN inventory[vendor][line.gas_product].refill_price
         ELSE inventory[vendor][line.gas_product].selling_price
    ELSE IF line.is_refill THEN catalog[line.gas_product].refill_price
         ELSE catalog[line.gas_product].base_price

\* VendorInventory.available_stock
available_stock(row) ==
    IF row.current_stock - row.reserved_stock > 0
    THEN row.current_stock - row.reserved_stock ELSE 0

\* in_stock of one estimated line
in_stock(vendor, line) ==
    /\ line.gas_product \in DOMAIN inventory[vendor]
    /\ available_stock(inventory[vendor][line.gas_product]) >= line.quantity

\* one entry of estimated_items
estimated_item(vendor, line) ==
    [product_name |-> line.gas_product, quantity |-> line.quantity,
     unit_price |-> estimate_unit_price(vendor, line),
     total_price |-> line.quantity * estimate_unit_price(vendor, line),
     in_stock |-> in_stock(vendor, line)]

\* the estimate returned for a vendor and item lines: the answer with its
\* vendor, items, subtotal, delivery_fee and total_amount
estimate(vendor, lines) ==
    LET items == [i \in DOMAIN lines |-> estimated_item(vendor, lines[i])]
        subtotal == sum_total_price(items)
    IN  [op |-> "OrderEstimateView_post", code |-> 200,
         vendor |-> vendor, items |-> items, subtotal |-> subtotal,
         delivery_fee |-> delivery_fee[vendor],
         total_amount |-> subtotal + delivery_fee[vendor]]

\* OrderEstimateView.post (OrderEstimateSerializer): open to every
\* authenticated principal; items are not checked beyond their fields
OrderEstimateView_post(user, data) ==
    /\ IF data.vendor \notin Vendors
       THEN response' = Resp("OrderEstimateView_post", 400)
       ELSE IF \E i \in DOMAIN data.items :
                    estimate_unit_price(data.vendor, data.items[i]) = NULL
       THEN \* quantity * None raises TypeError
            response' = Resp("OrderEstimateView_post", 500)
       ELSE response' = estimate(data.vendor, data.items)
    /\ UNCHANGED <<dbOrders, dbPayments, dbRiders, dbCatalog, today, inflight>>

\* ------------------------------------------------------ requests
Line(p, q, r) == [gas_product |-> p, quantity |-> q, is_refill |-> r]

\* the item lists of the create-order bodies exercised: empty, one and two
\* lines, both products, sale and refill, zero and negative quantities
ItemLists ==
    { <<>>,
      <<Line("gas13kg", 1, FALSE)>>,
      <<Line("gas13kg", 2, TRUE)>>,
      <<Line("gas6kg", 1, TRUE)>>,
      <<Line("gas13kg", 2, FALSE), Line("gas6kg", 1, FALSE)>>,
      <<Line("gas6kg", 2, FALSE), Line("gas6kg", 1, TRUE)>>,
      <<Line("gas6kg", 1, TRUE), Line("gas13kg", 1, FALSE)>>,
      <<Line("gas13kg", 0, FALSE)>>,
      <<Line("gas13kg", 1, FALSE), Line("gas6kg", -1, FALSE)>>,
      <<Line("gas6kg", 0, TRUE), Line("gas13kg", 2, FALSE)>> }

CreateRequests == [vendor : Vendors, items : ItemLists]

\* the principals sending create-order requests
CreateUsers == {"c1", "v1"}

\* ------------------------------------------------------- initial
Init ==
    /\ orders = <<>>
    /\ order_items = <<>>
    /\ tracking = <<>>
    /\ payments = <<>>
    /\ deliveries = <<>>
    /\ earnings = <<>>
    /\ delivery_fee = [v \in Vendors |-> IF v = "v1" THEN 30000 ELSE 0]
    /\ inventory = [v \in Vendors |->
            IF v = "v1"
            THEN [p \in Products |->
                    IF p = "gas13kg"
                    THEN [selling_price |-> 250000, refill_price |-> 110000,
                          current_stock |-> 0, reserved_stock |-> 0]
                    ELSE [selling_price |-> 120000, refill_price |-> NULL,
                          current_stock |-> 5, reserved_stock |-> 0]]
            ELSE <<>>]
    /\ catalog = [p \in Products |->
            IF p = "gas13kg" THEN [base_price |-> 260000, refill_price |-> 130000]
            ELSE [base_price |-> 125000, refill_price |-> 70000]]
    /\ today = 1
    /\ inflight = [w \in Workers |-> Idle]
    /\ response = Resp("", 0)

\* ------------------------------------------- order creation alone
NextCreate ==
    \/ \E u \in CreateUsers, data \in CreateRequests : CreateOrderView_post(u, data)
    \/ \E u \in CreateUsers, data \in CreateRequests : OrderViewSet_create(u, data)

SpecCreate == Init /\ [][NextCreate]_vars

\* ------------------------------------- the requests of a lifecycle
\* create-order bodies
LifecycleRequests ==
    {[vendor |-> "v1", items |-> <<Line("gas13kg", 2, FALSE)>>]}

\* pk of the order and delivery routes: the id of the first row (no row has
\* it before that row is created)
OrderIds == {1}
DeliveryIds == {1}
PaymentIds == 1..MaxPayments

\* estimated_time of confirm; absent, the default is used
EstimatedTimes == {DefaultEstimatedTime, 45}
\* rider_id of assign_rider: a rider, a user who is no rider, absent
RiderIds == {"r1", "c1", NoUser}
\* reason of the cancel views, absent: their defaults
CancelReason == <<"No reason provided">>
CancelViewReason == <<"Customer requested cancellation">>
\* status of an order update
UpdateStatuses == {"delivered", "refunded"}
\* status of a delivery status update ("": absent)
NewDeliveryStatuses == {"picking_up", "delivered", "failed", ""}
\* status of a generic delivery update ("": not a valid choice)
PatchStatuses == {"delivered", "failed", ""}
\* actual_distance of a delivery update, in 1/100 km
Distances == {350}
\* phone_number of a payment initiation ("": absent)
PhoneNumbers == {"254700000001", ""}
\* stkCallback.CheckoutRequestID: of a payment, unknown, absent
CallbackIds == {CheckoutRequestID(pid) : pid \in PaymentIds} \cup {<<"ws_CO_", "x">>, <<>>}
\* stkCallback.ResultCode: success, cancelled by the user
ResultCodes == {0, 1032}
ResultDesc(code) == IF code = 0 THEN <<"Success">> ELSE <<"Request cancelled by user">>

\* The lifecycle specifications follow the first order from its creation.

\* the order actions: OrderViewSet and the cancel view
Next ==
    \/ \E u \in Users, data \in LifecycleRequests :
            orders = <<>> /\ CreateOrderView_post(u, data)
    \/ \E u \in Users, data \in LifecycleRequests :
            orders = <<>> /\ OrderViewSet_create(u, data)
    \/ \E u \in Users, o \in OrderIds, t \in EstimatedTimes : confirm(u, o, t)
    \/ \E u \in Users, o \in OrderIds : prepare(u, o)
    \/ \E u \in Users, o \in OrderIds : ready_for_pickup(u, o)
    \/ \E u \in Users, o \in OrderIds, r \in RiderIds : assign_rider(u, o, r)
    \/ \E u \in Users, o \in OrderIds : cancel(u, o, CancelReason)
    \/ \E u \in Users, o \in OrderIds : CancelOrderView_post(u, o, CancelViewReason)
    \/ \E u \in Users, o \in OrderIds, st \in UpdateStatuses :
            OrderViewSet_partial_update(u, o, st)

Spec == Init /\ [][Next]_vars

\* rider assignment and the delivery actions: DeliveryViewSet and the rider views
NextDelivery ==
    \/ \E u \in Users, data \in LifecycleRequests :
            orders = <<>> /\ CreateOrderView_post(u, data)
    \/ \E u \in Users, o \in OrderIds, r \in RiderIds : assign_rider(u, o, r)
    \/ \E u \in Users, o \in OrderIds : AcceptDeliveryView_post(u, o)
    \/ \E u \in Users, d \in DeliveryIds : accept(u, d)
    \/ \E u \in Users, d \in DeliveryIds : pickup(u, d)
    \/ \E u \in Users, d \in DeliveryIds : deliver(u, d)
    \/ \E u \in Users, d \in DeliveryIds : report_issue(u, d, <<>>)
    \/ \E u \in Users, d \in DeliveryIds, km \in Distances :
            DeliveryViewSet_partial_update(u, d, km)
    \/ \E u \in Users, d \in DeliveryIds, st \in NewDeliveryStatuses :
            UpdateDeliveryStatusView_post(u, d, st)
    \/ \E u \in Users, d \in DeliveryIds, st \in PatchStatuses :
            DeliveryViewSet_partial_update_status(u, d, st)

SpecDelivery == Init /\ [][NextDelivery]_vars

\* payment initiation and the gateway callback
NextPayment ==
    \/ \E u \in Users, data \in LifecycleRequests :
            orders = <<>> /\ CreateOrderView_post(u, data)
    \/ \E u \in Users, o \in OrderIds, ph \in PhoneNumbers :
            InitiatePaymentView_post(u, o, ph)
    \/ \E ref \in CallbackIds, code \in ResultCodes :
            MpesaCallbackView_post(ref, code, ResultDesc(code))
    \/ \E u \in Users, o \in OrderIds, t \in EstimatedTimes : confirm(u, o, t)
    \/ \E u \in Users, o \in OrderIds : cancel(u, o, CancelReason)

SpecPayment == Init /\ [][NextPayment]_vars

\* the order's history: its status changes and the removal of the order
NextHistory ==
    \/ \E u \in Users, data \in LifecycleRequests :
            orders = <<>> /\ CreateOrderView_post(u, data)
    \/ \E u \in Users, o \in OrderIds, t \in EstimatedTimes : confirm(u, o, t)
    \/ \E u \in Users, o \in OrderIds : cancel(u, o, CancelReason)
    \/ \E u \in Users, o \in OrderIds, st \in UpdateStatuses :
            OrderViewSet_partial_update(u, o, st)
    \/ \E u \in Users, o \in OrderIds : OrderViewSet_destroy(u, o)

SpecHistory == Init /\ [][NextHistory]_vars

\* the principals of the racing requests: the order's customer and vendor
RaceUsers == {"c1", "v1"}

\* the payment callback next to the order actions of other requests
NextCallbackRace ==
    \/ \E u \in RaceUsers, data \in LifecycleRequests :
            orders = <<>> /\ CreateOrderView_post(u, data)
    \/ \E u \in RaceUsers, o \in OrderIds :
            InitiatePaymentView_post(u, o, "254700000001")
    \/ \E w \in Workers, ref \in CallbackIds, code \in ResultCodes :
            MpesaCallbackView_post_read(w, ref, code, ResultDesc(code))
    \/ \E w \in Workers : MpesaCallbackView_post_write(w)
    \/ \E u \in RaceUsers, o \in OrderIds : confirm(u, o, DefaultEstimatedTime)
    \/ \E u \in RaceUsers, o \in OrderIds : cancel(u, o, CancelReason)

SpecCallbackRace == Init /\ [][NextCallbackRace]_vars

\* ------------------------- orders under changing prices and fees
\* create-order bodies: a sale at the vendor's price, a refill at the
\* catalog's price
PricingRequests ==
    { [vendor |-> "v1", items |-> <<Line("gas13kg", 2, FALSE)>>],
      [vendor |-> "v2", items |-> <<Line("gas6kg", 1, TRUE)>>] }

\* the bodies of the price and fee updates
InventoryPrices == {[selling_price |-> 240000, refill_price |-> 100000]}
CatalogPrices == {[base_price |-> 130000, refill_price |-> 75000]}
DeliveryFees == {20000}

NextPricing ==
    \/ \E data \in PricingRequests : CreateOrderView_post("c1", data)
    \/ \E pr \in InventoryPrices :
            orders # <<>> /\ VendorInventoryViewSet_partial_update("v1", "v1", "gas13kg", pr)
    \/ \E pr \in CatalogPrices :
            orders # <<>> /\ GasProductViewSet_partial_update("c1", "gas6kg", pr)
    \/ \E fee \in DeliveryFees :
            orders # <<>> /\ VendorProfileViewSet_partial_update("c1", "v1", fee)
    \/ \E o \in OrderIds : confirm("v1", o, DefaultEstimatedTime)
    \/ \E o \in OrderIds :
            payments = <<>> /\ InitiatePaymentView_post("c1", o, "254700000001")
    \/ MpesaCallbackView_post(CheckoutRequestID(1), 0, ResultDesc(0))
    \/ \E o \in OrderIds : OrderViewSet_partial_update("v1", o, "refunded")
    \/ \E o \in OrderIds : assign_rider("v1", o, "r1")
    \/ \E d \in DeliveryIds : deliver("r1", d)

SpecPricing == Init /\ [][NextPricing]_vars

\* ------------------------------- estimates and order creation
\* the bodies sent to both endpoints: no line, a refill, a refill the vendor
\* has no price for, two lines, a line of quantity 0
EstimateLists ==
    { <<>>,
      <<Line("gas13kg", 2, TRUE)>>,
      <<Line("gas6kg", 1, TRUE)>>,
      <<Line("gas13kg", 2, FALSE), Line("gas6kg", 1, FALSE)>>,
      <<Line("gas13kg", 0, FALSE)>> }

\* create-order bodies
EstimatedRequests == [vendor : Vendors, items : EstimateLists]

\* estimate bodies: those of the create-order requests, and an unknown vendor
EstimateRequests ==
    EstimatedRequests \cup {[vendor |-> "v9", items |-> <<Line("gas13kg", 1, FALSE)>>]}

NextEstimate ==
    \/ \E u \in CreateUsers, data \in EstimateRequests : OrderEstimateView_post(u, data)
    \/ \E data \in EstimatedRequests : CreateOrderView_post("c1", data)
    \/ \E pr \in InventoryPrices :
            VendorInventoryViewSet_partial_update("v1", "v1", "gas13kg", pr)
    \/ \E fee \in DeliveryFees : VendorProfileViewSet_partial_update("v1", "v1", fee)

SpecEstimate == Init /\ [][NextEstimate]_vars

\* ------------------------- order numbering under racing creations
NumberRequests ==
    [vendor : Vendors, items : {<<Line("gas13kg", 1, FALSE)>>}]

NextNumber ==
    \/ \E w \in Workers, u \in Customers, data \in NumberRequests, extra \in {0, 1} :
            Order_save_generate(w, u, data, extra)
    \/ \E w \in Workers : Order_save_insert(w)
    \/ NextDay

SpecNumber == Init /\ [][NextNumber]_vars

\* ================================================================ claims
\* the rows of a table that belong to order oid
RowsOf(table, oid) == {i \in DOMAIN table : table[i].order = oid}

RECURSIVE SumOver(_, _)
SumOver(table, idx) ==
    IF idx = {} THEN 0
    ELSE LET i == CHOOSE j \in idx : TRUE
         IN  table[i].quantity * table[i].unit_price + SumOver(table, idx \ {i})

\* a create-order request through either endpoint
CreateRequest(u, data) ==
    CreateOrderView_post(u, data) \/ OrderViewSet_create(u, data)

\* C1: every successful order creation persists an Order whose subtotal is the
\* sum of quantity * unit_price over its OrderItem rows (one per submitted
\* line, with the line's quantity), whose delivery_fee is the vendor's flat
\* fee, and whose total_amount is subtotal + delivery_fee.
C1_CreateTotals ==
    [][\A u \in CreateUsers, data \in CreateRequests :
        (response'.code = 201 /\ CreateRequest(u, data)) =>
            LET oid == Len(orders')
                o == orders'[oid]
                rows == RowsOf(order_items', oid)
            IN  /\ oid = Len(orders) + 1
                /\ Cardinality(rows) = Len(data.items)
                /\ \A i \in DOMAIN data.items :
                        order_items'[Len(order_items) + i].order = oid /\
                        order_items'[Len(order_items) + i].quantity = data.items[i].quantity
                /\ o.subtotal = SumOver(order_items', rows)
                /\ o.delivery_fee = delivery_fee[data.vendor]
                /\ o.vendor = data.vendor
                /\ o.total_amount = o.subtotal + o.delivery_fee]_vars

\* C1 witness: a two-line order at a vendor charging a delivery fee was created
C1_Witness ==
    /\ response.code = 201
    /\ Cardinality(RowsOf(order_items, Len(orders))) = 2
    /\ orders[Len(orders)].delivery_fee > 0
    /\ orders[Len(orders)].subtotal = 620000
    /\ orders[Len(orders)].total_amount = 650000

\* C7: a create-order request whose item list is empty or has a line with
\* quantity <= 0 does not succeed and persists nothing (no Order, OrderItem or
\* OrderTracking row); sent by a customer it is answered 400.
C7_InvalidItemsPersistNothing ==
    [][\A u \in CreateUsers, data \in CreateRequests :
        (/\ \/ data.items = <<>>
            \/ \E i \in DOMAIN data.items : data.items[i].quantity <= 0
         /\ CreateRequest(u, data)) =>
            /\ response'.code \in {400, 403, 500}
            /\ is_customer(u) => response'.code = 400
            /\ UNCHANGED <<orders, order_items, tracking>>]_vars

\* C7 witness: a validation error was answered while an earlier order exists
C7_Witness ==
    /\ response.code = 400
    /\ response.op \in {"CreateOrderView_post", "OrderViewSet_create"}
    /\ Len(orders) = 1
    /\ Len(tracking) >= 1

\* C9 (as claimed): after a successful creation the new order is pending /
\* pending, has its OrderItems and exactly one OrderTracking row, which is
\* the pending 'Order created successfully' row.
C9_OneTrackingRowOnCreate ==
    response.code = 201 =>
        LET oid == Len(orders)
        IN  /\ orders[oid].status = "pending"
            /\ orders[oid].payment_status = "pending"
            /\ RowsOf(order_items, oid) # {}
            /\ Cardinality(RowsOf(tracking, oid)) = 1
            /\ \A i \in RowsOf(tracking, oid) :
                    tracking[i].status = "pending" /\
                    tracking[i].notes = <<"Order created successfully">>

\* C2 (as claimed): no two persisted orders share an order_number, the number
\* a creation has obtained is not in use when it inserts its order, and a
\* later order of the same day carries the previous same-day sequence + 1.
C2_UniqueSequencedNumbers ==
    /\ \A i, j \in DOMAIN orders :
            i # j => orders[i].order_number # orders[j].order_number
    /\ \A w \in Workers :
            inflight[w].pc = "insert" =>
                \A i \in DOMAIN orders :
                    orders[i].order_number # inflight[w].order_number
    /\ \A j \in DOMAIN orders :
            LET earlier == {i \in 1..(j - 1) :
                              orders[i].order_number.date = orders[j].order_number.date}
            IN  /\ Len(orders[j].order_number.seq) = SeqWidth
                /\ \A i \in earlier :
                        ParseInt(orders[i].order_number.seq) < ParseInt(orders[j].order_number.seq)
                /\ earlier # {} =>
                        \E i \in earlier :
                            ParseInt(orders[j].order_number.seq) =
                                ParseInt(orders[i].order_number.seq) + 1

\* the status an order must have to move to a status of the delivery chain
ChainPredecessor(status) ==
    CASE status = "confirmed" -> "pending"
      [] status = "preparing" -> "confirmed"
      [] status = "ready_for_pickup" -> "preparing"
      [] status = "out_for_delivery" -> "ready_for_pickup"
      [] status = "delivered" -> "out_for_delivery"

ChainStatuses ==
    {"confirmed", "preparing", "ready_for_pickup", "out_for_delivery", "delivered"}

\* C3 (as claimed): an order's status is set to a status of the chain
\* pending -> confirmed -> preparing -> ready_for_pickup -> out_for_delivery
\* -> delivered only from that status's predecessor.
C3_StatusFollowsChain ==
    [][\A o \in DOMAIN orders :
        (orders'[o].status # orders[o].status /\ orders'[o].status \in ChainStatuses)
            => orders[o].status = ChainPredecessor(orders'[o].status)]_vars

\* C4 (as claimed): a cancelled order stays cancelled, and a delivered order
\* stays delivered unless it becomes refunded.
C4_TerminalStatuses ==
    [][\A o \in DOMAIN orders :
        /\ orders[o].status = "cancelled" => orders'[o].status = "cancelled"
        /\ orders[o].status = "delivered" =>
                orders'[o].status \in {"delivered", "refunded"}]_vars

\* a cancel request through either cancel view
CancelRequest(u, o) ==
    cancel(u, o, CancelReason) \/ CancelOrderView_post(u, o, CancelViewReason)

\* C5: a cancel request on a delivered or cancelled order is refused and
\* leaves the order row and the tracking rows as they were; on an order that
\* is pending, confirmed, preparing, ready_for_pickup or out_for_delivery a
\* cancel by its customer, its vendor or an admin sets status to cancelled
\* and appends exactly one tracking row, of status cancelled.
C5_CancelRejectedWhenTerminal ==
    [][\A u \in Users, o \in DOMAIN orders :
        (response'.op \in {"cancel", "CancelOrderView_post"} /\ CancelRequest(u, o)) =>
            /\ orders[o].status \in {"delivered", "cancelled"} =>
                    /\ response'.code \in {400, 403, 404}
                    /\ UNCHANGED <<orders, tracking>>
            /\ ( /\ orders[o].status \in {"pending", "confirmed", "preparing",
                                          "ready_for_pickup", "out_for_delivery"}
                 /\ u \in {orders[o].customer, orders[o].vendor} \cup Admins ) =>
                    /\ response'.code = 200
                    /\ orders'[o].status = "cancelled"
                    /\ Len(tracking') = Len(tracking) + 1
                    /\ SubSeq(tracking', 1, Len(tracking)) = tracking
                    /\ tracking'[Len(tracking')].order = o
                    /\ tracking'[Len(tracking')].status = "cancelled"]_vars

\* C5 witness: a cancel was refused on an order that is already cancelled
C5_Witness ==
    /\ response = Resp("CancelOrderView_post", 400)
    /\ orders[1].status = "cancelled"
    /\ orders[1].cancellation_reason = CancelReason
    /\ Cardinality({i \in DOMAIN tracking : tracking[i].status = "cancelled"}) = 1

\* C10: confirm by the order's vendor while the order is pending sets status
\* to confirmed and estimated_delivery_time to now + estimated_time and
\* appends one tracking row of status confirmed; any other confirm is refused
\* and leaves the order row and the tracking rows as they were.
C10_ConfirmOnlyFromPending ==
    [][\A u \in Users, o \in OrderIds, t \in EstimatedTimes :
        (response'.op = "confirm" /\ confirm(u, o, t)) =>
            IF o \in DOMAIN orders /\ orders[o].status = "pending" /\ orders[o].vendor = u
            THEN /\ response'.code = 200
                 /\ orders'[o].status = "confirmed"
                 /\ orders'[o].estimated_delivery_time = <<today, t>>
                 /\ Len(tracking') = Len(tracking) + 1
                 /\ SubSeq(tracking', 1, Len(tracking)) = tracking
                 /\ tracking'[Len(tracking')].order = o
                 /\ tracking'[Len(tracking')].status = "confirmed"
            ELSE /\ response'.code \in {400, 403, 404}
                 /\ UNCHANGED <<orders, tracking>>]_vars

\* C10 witness: a second confirm of a confirmed order was refused
C10_Witness ==
    /\ response = Resp("confirm", 400)
    /\ orders[1].status = "confirmed"
    /\ orders[1].estimated_delivery_time = <<1, 45>>
    /\ Cardinality({i \in DOMAIN tracking : tracking[i].status = "confirmed"}) = 1

\* C6 (as claimed): a callback delivered again for a payment that already
\* holds that callback's outcome changes neither the payment's status, nor
\* the order row, nor the tracking rows.
C6_CallbackReplayIsNoOp ==
    [][\A ref \in CallbackIds, code \in ResultCodes :
        ( /\ MpesaCallbackView_post(ref, code, ResultDesc(code))
          /\ \E pid \in payments_by_reference(ref) :
                payments[pid].gateway_response = <<"ResultCode", ToString(code)>> ) =>
            /\ \A pid \in payments_by_reference(ref) :
                    payments'[pid].status = payments[pid].status
            /\ UNCHANGED <<orders, tracking>>]_vars

\* C8 (as claimed): when a delivery is marked delivered, by deliver or by a
\* delivery status update, its order is delivered with actual_delivery_time
\* set and exactly one RiderEarnings row exists for the delivery, of amount
\* base_fee + distance_fee.
C8_DeliveredCreditsOnce ==
    [][\A u \in Users, d \in DOMAIN deliveries :
        ( /\ deliver(u, d) \/ UpdateDeliveryStatusView_post(u, d, "delivered")
          /\ response'.code = 200 ) =>
            /\ deliveries'[d].status = "delivered"
            /\ orders'[deliveries[d].order].status = "delivered"
            /\ orders'[deliveries[d].order].actual_delivery_time # NoTime
            /\ Cardinality({e \in DOMAIN earnings' : earnings'[e].delivery = d}) = 1
            /\ \A e \in DOMAIN earnings' :
                    earnings'[e].delivery = d =>
                        earnings'[e].amount = BaseFee + distance_fee(deliveries[d])]_vars

\* a request of principal u to one of the order endpoints that act on order o
OrderRequest(u, o) ==
    \/ \E t \in EstimatedTimes : confirm(u, o, t)
    \/ prepare(u, o)
    \/ ready_for_pickup(u, o)
    \/ \E r \in RiderIds : assign_rider(u, o, r)
    \/ cancel(u, o, CancelReason)
    \/ CancelOrderView_post(u, o, CancelViewReason)
    \/ \E st \in UpdateStatuses : OrderViewSet_partial_update(u, o, st)

\* C11 (as claimed): a request changes Order.status only as its sender's role
\* allows: to confirmed, preparing or ready_for_pickup only the order's
\* vendor, to out_for_delivery only that vendor or a rider, to delivered only
\* the assigned rider, and a customer only to cancelled.
C11_StatusChangesAreRoleGated ==
    [][\A u \in Users, o \in DOMAIN orders :
        (orders'[o].status # orders[o].status /\ OrderRequest(u, o)) =>
            /\ orders'[o].status \in {"confirmed", "preparing", "ready_for_pickup"} =>
                    is_order_vendor(u, o)
            /\ orders'[o].status = "out_for_delivery" =>
                    is_order_vendor(u, o) \/ is_rider(u)
            /\ orders'[o].status = "delivered" =>
                    is_rider(u) /\ orders[o].rider = u
            /\ is_customer(u) => orders'[o].status = "cancelled"]_vars

\* the most recently written tracking row of order oid
LastRow(oid) ==
    CHOOSE i \in RowsOf(tracking, oid) : \A j \in RowsOf(tracking, oid) : j <= i

\* C12 (as claimed): after every completed operation the most recently
\* written OrderTracking row of each order carries the order's current status.
C12_LastTrackingRowHasStatus ==
    response.code \in {200, 201} =>
        \A o \in DOMAIN orders :
            /\ RowsOf(tracking, o) # {}
            /\ tracking[LastRow(o)].status = orders[o].status

\* C13 (as claimed): no operation removes an Order row, and the OrderTracking
\* rows already written stay as they are: later operations only append.
C13_HistoryIsNeverLost ==
    [][/\ \A o \in DOMAIN orders : orders[o] # Gone => orders'[o] # Gone
       /\ Len(tracking') >= Len(tracking)
       /\ SubSeq(tracking', 1, Len(tracking)) = tracking]_vars

\* C14: initiating payment on a paid order is refused and creates no Payment
\* row; a customer's request, with a phone number, on an order of theirs that
\* is not paid appends exactly one Payment of the order's total_amount, which
\* is processing with an external_reference when the gateway accepted, or
\* failed with the failure reason recorded when it refused; every other
\* request creates no Payment row.
C14_InitiatePayment ==
    [][\A u \in Users, o \in OrderIds, ph \in PhoneNumbers :
        (response'.op = "InitiatePaymentView_post" /\ InitiatePaymentView_post(u, o, ph)) =>
            IF /\ is_customer(u) /\ ph # ""
               /\ o \in DOMAIN orders /\ orders[o].customer = u
               /\ orders[o].payment_status # "paid"
            THEN LET pid == Len(payments')
                 IN  /\ pid = Len(payments) + 1
                     /\ SubSeq(payments', 1, Len(payments)) = payments
                     /\ payments'[pid].order = o
                     /\ payments'[pid].amount = orders[o].total_amount
                     /\ \/ /\ response'.code = 200
                           /\ payments'[pid].status = "processing"
                           /\ payments'[pid].external_reference # <<>>
                        \/ /\ response'.code = 400
                           /\ payments'[pid].status = "failed"
                           /\ payments'[pid].failure_reason # <<>>
            ELSE /\ response'.code \in {400, 403, 404}
                 /\ UNCHANGED payments]_vars

\* C14 witness: after a first Payment failed at the callback, a second
\* initiation on the same order was accepted and created one more Payment
C14_Witness ==
    /\ response = Resp("InitiatePaymentView_post", 200)
    /\ Len(payments) = 2
    /\ payments[1].status = "failed"
    /\ payments[2].status = "processing"
    /\ payments[2].external_reference = CheckoutRequestID(2)
    /\ payments[2].amount = orders[1].total_amount
    /\ orders[1].payment_status = "failed"

\* C15 (as claimed): each order has at most one Payment whose status is
\* processing or completed.
C15_OneActivePaymentPerOrder ==
    \A o \in Live(orders) :
        Cardinality({p \in Live(payments) :
            payments[p].order = o /\ payments[p].status \in {"processing", "completed"}}) <= 1

\* C16: a payment callback without a CheckoutRequestID is answered 400, and
\* one whose CheckoutRequestID is the external_reference of no Payment is
\* answered 404; neither changes a Payment, Order, OrderItem or OrderTracking
\* row.
C16_UnmatchedCallback ==
    [][\A ref \in CallbackIds, code \in ResultCodes :
        ( /\ response'.op = "MpesaCallbackView_post"
          /\ \A p \in DOMAIN payments : payments[p].external_reference # ref
          /\ MpesaCallbackView_post(ref, code, ResultDesc(code)) ) =>
            /\ response'.code = IF ref = <<>> THEN 400 ELSE 404
            /\ UNCHANGED <<orders, order_items, tracking, payments>>]_vars

\* C16 witness: a callback naming an unknown checkout request was answered 404
\* while a Payment awaits its callback
C16_Witness ==
    /\ response = Resp("MpesaCallbackView_post", 404)
    /\ Len(payments) = 1
    /\ payments[1].status = "processing"
    /\ orders[1].payment_status = "pending"

\* C17: a callback that matches a Payment is answered 200 and reconciles the
\* Payment and its order: with result code 0 the Payment is completed with
\* completed_at set and the order's payment_status is paid; with any other
\* code the Payment is failed with the result description as failure_reason
\* and the order's payment_status is failed; either way the callback payload
\* is stored as the Payment's gateway_response.
C17_CallbackReconciles ==
    [][\A ref \in CallbackIds, code \in ResultCodes, p \in DOMAIN payments :
        ( /\ response'.op = "MpesaCallbackView_post"
          /\ payments[p].external_reference = ref
          /\ MpesaCallbackView_post(ref, code, ResultDesc(code)) ) =>
            /\ response'.code = 200
            /\ payments'[p].gateway_response = <<"ResultCode", ToString(code)>>
            /\ IF code = 0
               THEN /\ payments'[p].status = "completed"
                    /\ payments'[p].completed_at = <<today, 0>>
                    /\ orders'[payments[p].order].payment_status = "paid"
               ELSE /\ payments'[p].status = "failed"
                    /\ payments'[p].failure_reason = ResultDesc(code)
                    /\ orders'[payments[p].order].payment_status = "failed"]_vars

\* C17 witness: the callback of a cancelled STK push failed the Payment and
\* the order's payment_status
C17_Witness ==
    /\ response = Resp("MpesaCallbackView_post", 200)
    /\ Len(payments) = 1
    /\ payments[1].status = "failed"
    /\ payments[1].failure_reason = <<"Request cancelled by user">>
    /\ payments[1].gateway_response = <<"ResultCode", "1032">>
    /\ orders[1].payment_status = "failed"

\* C18 (as claimed): the writes of a payment callback leave every order's
\* status as the order and delivery actions last set it, whatever ran
\* between the callback's read of the order and its save.
C18_CallbackKeepsOrderStatus ==
    [][\A w \in Workers :
        MpesaCallbackView_post_write(w) =>
            \A o \in DOMAIN orders : orders'[o].status = orders[o].status]_vars

\* C19 (as claimed): an assignment request (assign_rider by the vendor or
\* AcceptDeliveryView by a rider) succeeds only on an order that is
\* ready_for_pickup and has no rider; it then sets the order's rider, sets
\* its status to out_for_delivery and creates its Delivery row with status
\* assigned; a refused assignment changes neither the order nor a delivery.
C19_AssignmentPreconditions ==
    [][\A u \in Users, o \in DOMAIN orders :
        ( /\ response'.op \in {"assign_rider", "AcceptDeliveryView_post"}
          /\ \/ \E r \in RiderIds : assign_rider(u, o, r)
             \/ AcceptDeliveryView_post(u, o) ) =>
            IF response'.code = 200
            THEN /\ orders[o].status = "ready_for_pickup"
                 /\ orders[o].rider = NoUser
                 /\ orders'[o].rider \in Riders
                 /\ orders'[o].status = "out_for_delivery"
                 /\ Len(deliveries') = Len(deliveries) + 1
                 /\ deliveries'[Len(deliveries')].order = o
                 /\ deliveries'[Len(deliveries')].status = "assigned"
            ELSE UNCHANGED <<orders, deliveries>>]_vars

\* the status a delivery must have to move to a status of the delivery chain
DeliveryPredecessor(status) ==
    CASE status = "accepted" -> "assigned"
      [] status = "picking_up" -> "accepted"
      [] status = "in_transit" -> "picking_up"
      [] status = "delivered" -> "in_transit"

\* C20 (as claimed): a delivery's status stays within DELIVERY_STATUS, never
\* changes once it is delivered, failed or cancelled, and otherwise changes
\* only to the next status of assigned -> accepted -> picking_up ->
\* in_transit -> delivered, or to failed or cancelled.
C20_DeliveryStatusFollowsChain ==
    [][\A d \in DOMAIN deliveries :
        LET old == deliveries[d].status
            new == deliveries'[d].status
        IN  /\ new \in DELIVERY_STATUS
            /\ new # old =>
                /\ old \notin {"delivered", "failed", "cancelled"}
                /\ new \in {"failed", "cancelled"} \/ old = DeliveryPredecessor(new)]_vars

\* a request of user u to one of the handlers that write a delivery
DeliveryRequest(u, d) ==
    \/ accept(u, d)
    \/ pickup(u, d)
    \/ deliver(u, d)
    \/ report_issue(u, d, <<>>)
    \/ \E km \in Distances : DeliveryViewSet_partial_update(u, d, km)
    \/ \E st \in NewDeliveryStatuses : UpdateDeliveryStatusView_post(u, d, st)
    \/ \E st \in PatchStatuses : DeliveryViewSet_partial_update_status(u, d, st)

\* C21 (as claimed): no request of a customer, a vendor or a rider other than
\* the rider of the delivery changes the status of that delivery, through any
\* endpoint, the generic update of the deliveries resource included.
C21_OnlyAssignedRiderChangesStatus ==
    [][\A u \in Customers \cup Vendors \cup Riders, d \in DOMAIN deliveries :
        ( /\ deliveries'[d].status # deliveries[d].status
          /\ u # deliveries[d].rider ) => ~DeliveryRequest(u, d)]_vars

\* C22 (as claimed): whenever the status of a delivery becomes failed, by any
\* operation that can set it, the status of its order becomes cancelled and a
\* cancellation_reason is recorded on the order.
C22_FailedDeliveryCancelsOrder ==
    [][\A d \in DOMAIN deliveries :
        ( /\ deliveries[d].status # "failed"
          /\ deliveries'[d].status = "failed" ) =>
            /\ orders'[deliveries[d].order].status = "cancelled"
            /\ orders'[deliveries[d].order].cancellation_reason # <<>>]_vars

\* the unit price the pricing rule gives a line at a vendor
ResolvedPrice(v, line) ==
    LET p == line.gas_product
    IN  IF p \in DOMAIN inventory[v]
        THEN IF line.is_refill THEN inventory[v][p].refill_price
             ELSE inventory[v][p].selling_price
        ELSE IF line.is_refill THEN catalog[p].refill_price
             ELSE catalog[p].base_price

C24_PricesAreSnapshots ==
    [][ /\ \A o \in DOMAIN orders :
            /\ orders'[o].subtotal = orders[o].subtotal
            /\ orders'[o].delivery_fee = orders[o].delivery_fee
            /\ orders'[o].total_amount = orders[o].total_amount
        /\ \A i \in DOMAIN order_items :
            /\ order_items'[i].order = order_items[i].order
            /\ order_items'[i].unit_price = order_items[i].unit_price
            /\ order_items'[i].total_price = order_items[i].total_price ]_vars

\* C24 witness: the vendor's price and fee were changed after order 1 was
\* created, the order has since been paid and delivered, and it still carries
\* the price and the fee of its creation
C24_Witness ==
    /\ Len(orders) >= 1
    /\ orders[1].vendor = "v1"
    /\ orders[1].status = "delivered"
    /\ orders[1].payment_status = "paid"
    /\ inventory["v1"]["gas13kg"].selling_price = 240000
    /\ delivery_fee["v1"] = 20000
    /\ \E i \in DOMAIN order_items :
            order_items[i].order = 1 /\ order_items[i].unit_price = 250000
    /\ orders[1].delivery_fee = 30000
    /\ orders[1].total_amount = 530000

\* C25 (as claimed): every persisted order has total_amount = subtotal +
\* delivery_fee - discount_amount + tax_amount with the five amounts
\* non-negative and a subtotal equal to the sum of the total_price of its
\* OrderItem rows, and every OrderItem has quantity > 0 and total_price =
\* quantity * unit_price.
C25_OrderAmounts ==
    /\ \A o \in DOMAIN orders :
        /\ orders[o].total_amount = orders[o].subtotal + orders[o].delivery_fee
                - orders[o].discount_amount + orders[o].tax_amount
        /\ orders[o].subtotal >= 0
        /\ orders[o].delivery_fee >= 0
        /\ orders[o].discount_amount >= 0
        /\ orders[o].tax_amount >= 0
        /\ orders[o].total_amount >= 0
        /\ orders[o].subtotal =
            SumOver(order_items, RowsOf(order_items, o))
    /\ \A i \in DOMAIN order_items :
        /\ order_items[i].quantity > 0
        /\ order_items[i].total_price =
                order_items[i].quantity * order_items[i].unit_price

\* C26 (as claimed): once the payment_status of an order is paid, no later
\* payment callback, for any Payment of the order and with any result code,
\* and no other operation sets it back to failed or pending.
C26_PaidIsStable ==
    [][\A o \in DOMAIN orders :
        orders[o].payment_status = "paid" =>
            orders'[o].payment_status \notin {"failed", "pending"}]_vars

\* C27 (as claimed): in every reachable state a Payment has status completed
\* only if the payment_status of its order is paid, and the payment_status of
\* an order is paid only if one of its Payments has status completed.
C27_PaymentAndOrderAgree ==
    /\ \A p \in DOMAIN payments :
        payments[p].status = "completed" =>
            orders[payments[p].order].payment_status = "paid"
    /\ \A o \in DOMAIN orders :
        orders[o].payment_status = "paid" =>
            \E p \in DOMAIN payments :
                payments[p].order = o /\ payments[p].status = "completed"

\* C28 (as claimed): in every reachable state an order has at most one
\* Delivery row, and the rider of an order that has a Delivery row is the user
\* of that Delivery's rider, also after repeated assign_rider calls on the
\* same order.
C28_OrderAndDeliveryAgreeOnRider ==
    /\ \A d \in DOMAIN deliveries :
        orders[deliveries[d].order].rider = deliveries[d].rider
    /\ \A d, e \in DOMAIN deliveries :
        deliveries[d].order = deliveries[e].order => d = e

\* C29 (as claimed): a create-order request that does not return success
\* leaves no trace: no Order, OrderItem or OrderTracking row of the request
\* remains persisted, at whatever step the creation failed.
C29_FailedCreationLeavesNoTrace ==
    [][\A u \in CreateUsers, data \in CreateRequests :
        (response'.code # 201 /\ CreateRequest(u, data)) =>
            UNCHANGED <<orders, order_items, tracking>>]_vars

\* C30: an estimate persists nothing (it leaves every Order, OrderItem,
\* OrderTracking, Payment and inventory row unchanged), and an order created
\* right after an estimate for the same vendor and item lines, the prices and
\* the fee being unchanged in between, persists the subtotal, delivery_fee and
\* total_amount the estimate returned.
C30_EstimateMatchesCreation ==
    [][ /\ response'.op = "OrderEstimateView_post" =>
            UNCHANGED <<orders, order_items, tracking, payments, inventory,
                        catalog, delivery_fee>>
        /\ \A data \in EstimatedRequests :
            ( /\ response.op = "OrderEstimateView_post"
              /\ response.code = 200
              /\ response'.code = 201
              /\ response = estimate(data.vendor, data.items)
              /\ CreateOrderView_post("c1", data) ) =>
                LET o == orders'[Len(orders')]
                IN  /\ o.subtotal = response.subtotal
                    /\ o.delivery_fee = response.delivery_fee
                    /\ o.total_amount = response.total_amount ]_vars

\* C30 witness: an estimate for a refill at a vendor charging a fee returned
\* the amounts of an order created for the same vendor and lines
C30_Witness ==
    /\ response.op = "OrderEstimateView_post"
    /\ response.code = 200
    /\ response.vendor = "v1"
    /\ response.delivery_fee > 0
    /\ Len(response.items) = 1
    /\ response.items[1].unit_price # inventory["v1"]["gas13kg"].selling_price
    /\ \E o \in DOMAIN orders :
        /\ orders[o].vendor = response.vendor
        /\ orders[o].subtotal = response.subtotal
        /\ orders[o].total_amount = response.total_amount
        /\ \E i \in DOMAIN order_items :
            /\ order_items[i].order = o
            /\ order_items[i].is_refill
            /\ order_items[i].unit_price = response.items[1].unit_price

====
